---- MODULE Spec2Model ----
(***************************************************************************)
(* Model of the AnalyticDB for PostgreSQL Dify plugin:                     *)
(*   - the sliding-window chat retry of AdbpgLargeLanguageModel._generate  *)
(*   - the stream reassembly of _handle_generate_stream_response           *)
(*   - the non-streaming aggregation of _handle_generate_response          *)
(*   - the job pollers AdbpgDocParser._poll_job and                        *)
(*     GetUploadDocumentJob._poll_until_finish                             *)
(*   - the file resolution of tools/base/file_utils.py                     *)
(*   - the retrieval endpoint AdbpgEndpoint._invoke                        *)
(* Each component has its own specification (SpecGenerate, SpecStream,     *)
(* SpecResponse, SpecPoll, SpecResolve, SpecEndpoint); Spec is their       *)
(* union.                                                                  *)
(***************************************************************************)
EXTENDS Integers, Sequences, FiniteSets, TLC

VARIABLES
    \* ---- AdbpgLargeLanguageModel._generate ----
    genPc,            \* position in _generate
    prompt_messages,  \* the caller's list of PromptMessage
    stream,           \* the stream argument
    messages,         \* params["messages"]
    retry_count,      \* retry_count
    last_exception,   \* last_exception
    attempts,         \* log of chat_stream calls: the list sent and the outcome
    raised,           \* exception propagated to the caller of _generate
    handler,          \* which response handler _generate returned through
    handlerPrompt,    \* the prompt_messages argument handed to that handler
    \* ---- _handle_generate_stream_response / _handle_generate_response ----
    hPc,              \* position of the response handler
    responses,        \* chunks consumed so far, in arrival order
    index,            \* index (stream handler)
    thinking_started, \* thinking_started (stream handler)
    content_started,  \* content_started (stream handler)
    out,              \* segments yielded so far (stream handler)
    full_content,     \* full_content (non-streaming handler)
    input_tokens,     \* input_tokens (non-streaming handler)
    output_tokens,    \* output_tokens (non-streaming handler)
    result,           \* the LLMResult returned by the non-streaming handler
    \* ---- job pollers ----
    pollPc,           \* position in the polling loop
    poller,           \* which poller runs: "_poll_job" or "_poll_until_finish"
    completesAt,      \* remote job: first status read that reports Completed
    errorAt,          \* remote job: first status read that reports an Error
    now,              \* time.time()
    start_time,       \* start_time
    numReads,         \* get_upload_document_job calls made
    numSleeps,        \* time.sleep calls made
    sleptSeconds,     \* total seconds asked of time.sleep
    response,         \* last response read
    pollResult,       \* value returned by the poller
    pollError,        \* error raised by the poller
    \* ---- file_utils: resolve_file_context ----
    fPc,              \* position in a use of resolve_file_context
    file_url,         \* the locator handed to resolve_file
    files,            \* paths of the regular files that exist on disk
    download_outcome, \* what the download did: "none" while not attempted
    download_attempts,\* calls of download_file_from_dify
    temp_created,     \* path NamedTemporaryFile created, None if it created none
    resolved,         \* the ResolvedFile returned by resolve_file
    body_outcome,     \* how the body of the with block ended
    unlink_failed,    \* os.unlink raised inside cleanup_temp_file
    warnings,         \* logger.warning records written by cleanup_temp_file
    propagated,       \* exception that left the with statement
    call_state,       \* the remote upload or query call made inside the with block
    \* ---- AdbpgEndpoint._invoke ----
    epPc,             \* position of the endpoint handler
    request_data,     \* r.get_data(): the raw request body
    body,             \* the JSON value the raw body stands for
    remote_calls,     \* calls of query_content_text
    remote_result,    \* what the remote query did
    http_response,    \* the Response returned
    epRaised,         \* exception that left _invoke
    \* ---- AdbpgRerankModel._invoke ----
    rrPc,             \* position of the rerank call
    rr_docs,          \* docs
    rr_top_n,         \* top_n
    rr_score_threshold, \* score_threshold, in thousandths
    rr_requests,      \* the topk of every api_helper.rerank call made
    rr_response,      \* what the remote rerank returned
    rr_result,        \* RerankResult.docs
    rrRaised,         \* exception that left _invoke
    \* ---- AnalyticDBAPIHelper: operations with a structured-string parameter ----
    faPc,             \* position of the facade call
    fa_op,            \* the operation called
    fa_param,         \* the value of its structured-string parameter
    fa_file_exists,   \* os.path.exists(file_path), for the advance operations
    fa_requests,      \* requests handed to the SDK client
    fa_raised,        \* exception that left the operation
    fa_parsed,        \* the parsed parameter placed in the request
    \* ---- ChatWithKnowledgeBaseStream._invoke ----
    ctPc,             \* position of the tool's generator
    ct_chunks,        \* chunks consumed so far, in arrival order
    ct_thinking_started, \* thinking_started
    ct_content_started,  \* content_started
    ct_out            \* texts of the stream variable messages yielded so far

genVars == <<genPc, prompt_messages, stream, messages, retry_count,
             last_exception, attempts, raised, handler, handlerPrompt>>
hVars == <<hPc, responses, index, thinking_started, content_started, out,
           full_content, input_tokens, output_tokens, result>>
pollVars == <<pollPc, poller, completesAt, errorAt, now, start_time, numReads,
              numSleeps, sleptSeconds, response, pollResult, pollError>>
fileVars == <<fPc, file_url, files, download_outcome, download_attempts,
              temp_created, resolved, body_outcome, unlink_failed, warnings,
              propagated, call_state>>
epVars == <<epPc, request_data, body, remote_calls, remote_result,
            http_response, epRaised>>
rerankVars == <<rrPc, rr_docs, rr_top_n, rr_score_threshold, rr_requests,
                rr_response, rr_result, rrRaised>>
facadeVars == <<faPc, fa_op, fa_param, fa_file_exists, fa_requests, fa_raised,
                fa_parsed>>
chatVars == <<ctPc, ct_chunks, ct_thinking_started, ct_content_started, ct_out>>
extVars == <<rerankVars, facadeVars, chatVars>>
toolVars == <<fileVars, epVars, extVars>>
vars == <<genVars, hVars, pollVars, toolVars>>

None == "None"

Max(a, b) == IF a >= b THEN a ELSE b
Min(a, b) == IF a <= b THEN a ELSE b

\* mutant: the slice taken from the front, s[:k]
LastKFromFront(s, k) == IF k >= Len(s) THEN s ELSE SubSeq(s, 1, k)

\* the python slice s[-k:] for 1 <= k
LastK(s, k) == IF k >= Len(s) THEN s ELSE SubSeq(s, Len(s) - k + 1, Len(s))

(***************************************************************************)
(* Sliding-window chat retry                                               *)
(***************************************************************************)
MaxMsgs == 4

\* PromptMessage subclasses, by role; "tool" stands for ToolPromptMessage
Roles == {"system", "user", "assistant", "tool"}
ApiRoles == {"system", "user", "assistant"}

\* exceptions chat_stream may raise
Exceptions == {"RequestTooLarge", "ConnectionError"}

\* the i-th message of the caller carries content i, so messages are distinct
PromptLists ==
    UNION {{[i \in 1..n |-> [role |-> r[i], content |-> i]] : r \in [1..n -> Roles]}
           : n \in 0..MaxMsgs}

IsApiMessage(m) == m.role \in ApiRoles

\* only system, user and assistant messages are converted; others are skipped
ConvertPromptMessagesToApiMessages(pm) == SelectSeq(pm, IsApiMessage)

\* mutant: the floor test off by one
AtMinimumBelowTwo(msgs) == Len(msgs) < 2

\* line 174: the list cannot be reduced any further
AtMinimum(msgs) == Len(msgs) <= 2

\* mutant: two messages dropped per retry
MessagesToKeepDropTwo(n) == Max(2, n - 2)

\* mutant: nothing dropped
MessagesToKeepAll(n) == Max(2, n)

\* line 187
MessagesToKeep(n) == Max(2, n - 1)

GenIdle ==
    /\ genPc = "idle"
    /\ prompt_messages = <<>>
    /\ stream = FALSE
    /\ messages = <<>>
    /\ retry_count = 0
    /\ last_exception = None
    /\ attempts = <<>>
    /\ raised = None
    /\ handler = None
    /\ handlerPrompt = <<>>

HandlerIdle ==
    /\ hPc = "idle"
    /\ responses = <<>>
    /\ index = 0
    /\ thinking_started = FALSE
    /\ content_started = FALSE
    /\ out = <<>>
    /\ full_content = ""
    /\ input_tokens = 0
    /\ output_tokens = 0
    /\ result = None

PollIdle ==
    /\ pollPc = "idle"
    /\ poller = None
    /\ completesAt = 0
    /\ errorAt = 0
    /\ now = 0
    /\ start_time = 0
    /\ numReads = 0
    /\ numSleeps = 0
    /\ sleptSeconds = 0
    /\ response = [read |-> 0, Completed |-> FALSE, Error |-> ""]
    /\ pollResult = [read |-> 0, Completed |-> FALSE, Error |-> ""]
    /\ pollError = None

\* file_utils.py lines 29-36: the ResolvedFile dataclass
ResolvedFile(source, local_path, remote_url, temp_file) ==
    [source |-> source, local_path |-> local_path, remote_url |-> remote_url,
     temp_file |-> temp_file]

NoResolved == ResolvedFile(None, None, None, None)

FileIdle ==
    /\ fPc = "idle"
    /\ file_url = ""
    /\ files = {}
    /\ download_outcome = "none"
    /\ download_attempts = 0
    /\ temp_created = None
    /\ resolved = NoResolved
    /\ body_outcome = "none"
    /\ unlink_failed = FALSE
    /\ warnings = 0
    /\ propagated = None
    /\ call_state = "none"

\* JSON values of the fields the endpoint reads: a key the object does not
\* have, null, a string, a number
Absent == [kind |-> "absent", str |-> "", num |-> 0]
JsonNull == [kind |-> "null", str |-> "", num |-> 0]
Str(s) == [kind |-> "string", str |-> s, num |-> 0]
Num(n) == [kind |-> "number", str |-> "", num |-> n]

NoSetting == [kind |-> "absent", top_k |-> Absent, score_threshold |-> Absent]
NoBody ==
    [kind |-> "none", extra |-> FALSE, knowledge_id |-> Absent, query |-> Absent,
     retrieval_setting |-> NoSetting]
NoRemoteResult == [kind |-> "none", text |-> <<>>, matches |-> <<>>]
NoHttpResponse == [status_code |-> 0, json |-> [none |-> TRUE]]

EndpointIdle ==
    /\ epPc = "idle"
    /\ request_data = <<>>
    /\ body = NoBody
    /\ remote_calls = 0
    /\ remote_result = NoRemoteResult
    /\ http_response = NoHttpResponse
    /\ epRaised = None

NoRerankResponse == [kind |-> "none", results |-> <<>>]

RerankIdle ==
    /\ rrPc = "idle"
    /\ rr_docs = <<>>
    /\ rr_top_n = Absent
    /\ rr_score_threshold = Absent
    /\ rr_requests = <<>>
    /\ rr_response = NoRerankResponse
    /\ rr_result = <<>>
    /\ rrRaised = None

NoParam == [kind |-> "none", parts |-> <<>>, json |-> "none", elements |-> "none"]

FacadeIdle ==
    /\ faPc = "idle"
    /\ fa_op = None
    /\ fa_param = NoParam
    /\ fa_file_exists = TRUE
    /\ fa_requests = 0
    /\ fa_raised = None
    /\ fa_parsed = NoParam

ChatToolIdle ==
    /\ ctPc = "idle"
    /\ ct_chunks = <<>>
    /\ ct_thinking_started = FALSE
    /\ ct_content_started = FALSE
    /\ ct_out = <<>>

ExtIdle == RerankIdle /\ FacadeIdle /\ ChatToolIdle

ToolsIdle == FileIdle /\ EndpointIdle /\ ExtIdle

InitGenerate ==
    /\ genPc = "start"
    /\ prompt_messages \in PromptLists
    /\ stream \in BOOLEAN
    /\ messages = <<>>
    /\ retry_count = 0
    /\ last_exception = None
    /\ attempts = <<>>
    /\ raised = None
    /\ handler = None
    /\ handlerPrompt = <<>>
    /\ HandlerIdle
    /\ PollIdle
    /\ ToolsIdle

\* lines 140-165: build params and enter the retry loop
Generate ==
    /\ genPc = "start"
    /\ messages' = ConvertPromptMessagesToApiMessages(prompt_messages)
    /\ retry_count' = 0
    /\ last_exception' = None
    /\ genPc' = "call"
    /\ UNCHANGED <<prompt_messages, stream, attempts, raised, handler, handlerPrompt>>
    /\ UNCHANGED <<hVars, pollVars, toolVars>>

\* mutant: the handler gets the prompt cut down to what was sent
HandlerPromptMessagesTrimmed(prompt, sent) == LastK(prompt, Len(sent))

\* lines 199-206: the prompt_messages argument of either handler is the
\* parameter of _generate, not params["messages"]
HandlerPromptMessages(prompt, sent) == prompt

\* lines 169-170, 197-207: the attempt returns, the loop is left and the
\* response goes to the handler chosen by stream
ChatStreamReturns ==
    /\ genPc = "call"
    /\ attempts' = Append(attempts, [messages |-> messages, outcome |-> "ok"])
    /\ handler' = IF stream THEN "_handle_generate_stream_response"
                            ELSE "_handle_generate_response"
    /\ handlerPrompt' = HandlerPromptMessages(prompt_messages, messages)
    /\ genPc' = "returned"
    /\ UNCHANGED <<prompt_messages, stream, messages, retry_count, last_exception, raised>>
    /\ UNCHANGED <<hVars, pollVars, toolVars>>

\* lines 171-176: the attempt raises with at most 2 messages left
ChatStreamRaisesAtMinimum(ex) ==
    /\ genPc = "call"
    /\ AtMinimum(messages)
    /\ attempts' = Append(attempts, [messages |-> messages, outcome |-> ex])
    /\ last_exception' = ex
    /\ raised' = ex
    /\ genPc' = "raised"
    /\ UNCHANGED <<prompt_messages, stream, messages, retry_count, handler, handlerPrompt>>
    /\ UNCHANGED <<hVars, pollVars, toolVars>>

\* lines 171-194: the attempt raises with more than 2 messages left
ChatStreamRaisesAndTrims(ex) ==
    /\ genPc = "call"
    /\ ~AtMinimum(messages)
    /\ attempts' = Append(attempts, [messages |-> messages, outcome |-> ex])
    /\ last_exception' = ex
    /\ messages' = LastK(messages, MessagesToKeep(Len(messages)))
    /\ retry_count' = retry_count + 1
    /\ UNCHANGED <<genPc, prompt_messages, stream, raised, handler, handlerPrompt>>
    /\ UNCHANGED <<hVars, pollVars, toolVars>>

NextGenerate ==
    \/ Generate
    \/ ChatStreamReturns
    \/ \E ex \in Exceptions : ChatStreamRaisesAtMinimum(ex)
    \/ \E ex \in Exceptions : ChatStreamRaisesAndTrims(ex)

SpecGenerate == InitGenerate /\ [][NextGenerate]_vars

\* chat_stream is a blocking call that returns or raises
FairSpecGenerate == SpecGenerate /\ WF_vars(NextGenerate)

(***************************************************************************)
(* Properties of the sliding-window chat retry                             *)
(***************************************************************************)
\* the list _generate first sends, and its length n
OriginalMessages == ConvertPromptMessagesToApiMessages(prompt_messages)
OriginalCount == Len(OriginalMessages)

AttemptLen(i) == Len(attempts[i].messages)
Failed(i) == attempts[i].outcome # "ok"
IsSuffix(s, t) == \E k \in 0..Len(t) : s = SubSeq(t, k + 1, Len(t))
LastTwo(s) == SubSeq(s, Len(s) - 1, Len(s))

\* C1: a list of n >= 3 messages whose every attempt failed was sent n - 1
\* times (n - 2 retries), each time one message shorter than before, the
\* last time with 2 messages, and the exception of that last attempt is the
\* one raised to the caller, as it was thrown.
C1_AlwaysFailingRetries ==
    (genPc = "raised" /\ OriginalCount >= 3) =>
        /\ \A i \in 1..Len(attempts) : Failed(i)
        /\ retry_count = OriginalCount - 2
        /\ Len(attempts) = OriginalCount - 1
        /\ AttemptLen(1) = OriginalCount
        /\ \A i \in 2..Len(attempts) : AttemptLen(i) = AttemptLen(i - 1) - 1
        /\ AttemptLen(Len(attempts)) = 2
        /\ raised = attempts[Len(attempts)].outcome
        /\ raised = last_exception

C1_Witness ==
    /\ genPc = "raised"
    /\ OriginalCount = 4
    /\ Len(attempts) = 3
    /\ retry_count = 2

\* C2: an attempt that fails with 2 or fewer messages is the last attempt:
\* nothing is retried and its exception is raised; a failing list of at most
\* 2 messages gets one attempt and no retry.
C2_NoRetryAtMinimum ==
    /\ \A i \in 1..Len(attempts) :
          (Failed(i) /\ AttemptLen(i) <= 2) =>
              /\ i = Len(attempts)
              /\ genPc = "raised"
              /\ raised = attempts[i].outcome
    /\ (OriginalCount <= 2 /\ Len(attempts) >= 1 /\ Failed(1)) =>
          /\ Len(attempts) = 1
          /\ retry_count = 0
          /\ genPc = "raised"

C2_Witness ==
    /\ genPc = "raised"
    /\ OriginalCount = 2
    /\ Len(attempts) = 1
    /\ retry_count = 0

\* C3: every list sent to chat_stream, and the list about to be sent, is a
\* suffix of the original list, ends with the original last two messages
\* when there are at least two, and has at least min(2, n) messages.
C3_SentListIsSuffix ==
    /\ \A i \in 1..Len(attempts) :
          /\ IsSuffix(attempts[i].messages, OriginalMessages)
          /\ AttemptLen(i) >= Min(2, OriginalCount)
          /\ OriginalCount >= 2 =>
                LastTwo(attempts[i].messages) = LastTwo(OriginalMessages)
    /\ genPc = "call" =>
          /\ IsSuffix(messages, OriginalMessages)
          /\ Len(messages) >= Min(2, OriginalCount)
          /\ OriginalCount >= 2 => LastTwo(messages) = LastTwo(OriginalMessages)

C3_Witness ==
    /\ Len(attempts) = 3
    /\ OriginalCount = 4
    /\ AttemptLen(3) = 2
    /\ attempts[3].outcome = "ok"

GenerateDone == genPc \in {"returned", "raised"}

\* C4: the retry loop ends, with a response or with a raised exception,
\* after at most max(1, n - 1) attempts, and every retry sends a strictly
\* shorter list.
C4_RetryTerminates ==
    /\ <>GenerateDone
    /\ [](Len(attempts) <= Max(1, OriginalCount - 1))
    /\ [][retry_count' # retry_count => Len(messages') < Len(messages)]_vars

C4_Witness ==
    /\ genPc = "returned"
    /\ OriginalCount = 4
    /\ Len(attempts) = 2
    /\ retry_count = 1

\* C29: whatever the number of retries, the caller's prompt_messages list is
\* never changed, the handler that builds the result or the streamed
\* segments gets that original, untrimmed list, and only the list sent to
\* the remote service gets shorter.
C29_PromptUnchangedByRetry ==
    /\ [][prompt_messages' = prompt_messages]_vars
    /\ [](genPc = "returned" =>
            /\ handlerPrompt = prompt_messages
            /\ handler \in {"_handle_generate_stream_response", "_handle_generate_response"})
    /\ [](\A i \in 1..Len(attempts) :
            /\ IsSuffix(attempts[i].messages, OriginalMessages)
            /\ i > 1 => AttemptLen(i) < AttemptLen(i - 1))

C29_Witness ==
    /\ genPc = "returned"
    /\ retry_count = 2
    /\ Len(prompt_messages) = 4
    /\ OriginalCount = 4
    /\ AttemptLen(3) = 2
    /\ handlerPrompt = prompt_messages
    /\ Len(handlerPrompt) = 4

(***************************************************************************)
(* Chat-completion chunks and the stream handler                           *)
(***************************************************************************)
MaxChunks == 4

\* a token count that is None
NoCount == -1

NoUsage == [present |-> FALSE, input_tokens |-> NoCount, output_tokens |-> NoCount]

\* the texts the chunk arriving i-th may carry: distinct per arrival
ReasoningTexts == <<"r1", "r2", "r3", "r4", "r5", "r6">>
ContentTexts == <<"c1", "c2", "c3", "c4", "c5", "c6">>
FinishReasons == {"stop", "length"}

\* usage of the chunk arriving i-th, when it carries one
UsageOf(i) == [present |-> TRUE, input_tokens |-> 10 * i, output_tokens |-> i]

\* a chunk whose chat_completion is missing or has no choices
NoChoices(u) ==
    [choices |-> FALSE, reasoning_content |-> None, content |-> None,
     finish_reason |-> None, usage |-> u]

\* chunks of a streamed completion; usage comes with the finish_reason
StreamChunks(i) ==
    {NoChoices(NoUsage)} \cup
    {[choices |-> TRUE, reasoning_content |-> r, content |-> c,
      finish_reason |-> f,
      usage |-> IF f \in FinishReasons THEN UsageOf(i) ELSE NoUsage] :
        r \in {None, ReasoningTexts[i]}, c \in {None, ContentTexts[i]},
        f \in {None, "null"} \cup FinishReasons}

\* python truthiness of an optional string
Truthy(x) == x # None /\ x # ""

\* x or 0
OrZero(x) == IF x = NoCount THEN 0 ELSE x

\* _calc_response_usage: the host's pricing calculator, counts passed through
CalcResponseUsage(i, o) ==
    [present |-> TRUE, prompt_tokens |-> i, completion_tokens |-> o]

ThinkOpen == "<think>\n"
ThinkCloseBeforeContent == "\n</think>\n\n"
ThinkCloseAtFinish == "\n</think>"

\* yield LLMResultChunk(...) with the current index; index += 1 follows
\* every yield but the terminal one
Yield(st, text, finish, usage, bump) ==
    [st EXCEPT
        !.out = Append(@, [index |-> st.index, content |-> text,
                           finish_reason |-> finish, usage |-> usage,
                           prompt_messages |-> handlerPrompt]),
        !.index = IF bump THEN @ + 1 ELSE @]

\* lines 289-312
HandleReasoning(st, c) ==
    IF Truthy(c.reasoning_content)
    THEN LET opened == IF ~st.thinking_started
                       THEN Yield([st EXCEPT !.thinking_started = TRUE],
                                  ThinkOpen, None, NoUsage, TRUE)
                       ELSE st
         IN Yield(opened, c.reasoning_content, None, NoUsage, TRUE)
    ELSE st

\* mutant: the thinking block is not closed when content starts
HandleContentNoClose(st, c) ==
    IF Truthy(c.content) /\ Len(c.content) > 0
    THEN Yield(st, c.content, None, NoUsage, TRUE)
    ELSE st

\* lines 315-340
HandleContent(st, c) ==
    IF Truthy(c.content) /\ Len(c.content) > 0
    THEN LET closed == IF st.thinking_started /\ ~st.content_started
                       THEN Yield([st EXCEPT !.content_started = TRUE],
                                  ThinkCloseBeforeContent, None, NoUsage, TRUE)
                       ELSE st
         IN Yield(closed, c.content, None, NoUsage, TRUE)
    ELSE st

\* mutant: the literal "null" is taken for a finish reason
HandleFinishNullFinishes(st, c) ==
    IF Truthy(c.finish_reason)
    THEN LET closed == IF st.thinking_started /\ ~st.content_started
                       THEN Yield(st, ThinkCloseAtFinish, None, NoUsage, TRUE)
                       ELSE st
         IN Yield(closed, "", c.finish_reason, NoUsage, FALSE)
    ELSE st

\* lines 343-375
HandleFinish(st, c) ==
    IF Truthy(c.finish_reason) /\ c.finish_reason # "null"
    THEN LET closed == IF st.thinking_started /\ ~st.content_started
                       THEN Yield(st, ThinkCloseAtFinish, None, NoUsage, TRUE)
                       ELSE st
             usage == IF c.usage.present
                      THEN CalcResponseUsage(OrZero(c.usage.input_tokens),
                                             OrZero(c.usage.output_tokens))
                      ELSE NoUsage
         IN Yield(closed, "", c.finish_reason, usage, FALSE)
    ELSE st

\* mutant: content handled before reasoning
HandleStreamChunkContentFirst(st, c) ==
    IF c.choices
    THEN HandleFinish(HandleReasoning(HandleContent(st, c), c), c)
    ELSE st

\* lines 281-375: one iteration of the loop over responses
HandleStreamChunk(st, c) ==
    IF c.choices
    THEN HandleFinish(HandleContent(HandleReasoning(st, c), c), c)
    ELSE st

StreamState ==
    [index |-> index, thinking_started |-> thinking_started,
     content_started |-> content_started, out |-> out]

\* a sample caller's list handed to the handler
SamplePrompt == <<[role |-> "user", content |-> 1]>>

InitStream ==
    /\ genPc = "returned"
    /\ prompt_messages = SamplePrompt
    /\ stream = TRUE
    /\ messages = ConvertPromptMessagesToApiMessages(SamplePrompt)
    /\ retry_count = 0
    /\ last_exception = None
    /\ attempts = <<[messages |-> messages, outcome |-> "ok"]>>
    /\ raised = None
    /\ handler = "_handle_generate_stream_response"
    /\ handlerPrompt = SamplePrompt
    /\ PollIdle
    /\ hPc = "stream"
    /\ responses = <<>>
    /\ index = 0
    /\ thinking_started = FALSE
    /\ content_started = FALSE
    /\ out = <<>>
    /\ full_content = ""
    /\ input_tokens = 0
    /\ output_tokens = 0
    /\ result = None
    /\ ToolsIdle

\* the generator pulls the next chunk and runs the loop body on it
StreamChunkArrives(c) ==
    /\ hPc = "stream"
    /\ Len(responses) < MaxChunks
    /\ responses' = Append(responses, c)
    /\ LET st == HandleStreamChunk(StreamState, c)
       IN /\ index' = st.index
          /\ thinking_started' = st.thinking_started
          /\ content_started' = st.content_started
          /\ out' = st.out
    /\ UNCHANGED <<hPc, full_content, input_tokens, output_tokens, result>>
    /\ UNCHANGED <<genVars, pollVars, toolVars>>

NextStream ==
    \E c \in StreamChunks(Len(responses) + 1) : StreamChunkArrives(c)

SpecStream == InitStream /\ [][NextStream]_vars

(***************************************************************************)
(* Properties of the stream handler                                        *)
(***************************************************************************)
Texts(segs) == [i \in 1..Len(segs) |-> segs[i].content]
Finishes(segs) == [i \in 1..Len(segs) |-> segs[i].finish_reason]
CountText(segs, text) == Cardinality({i \in 1..Len(segs) : segs[i].content = text})

RealFinish(c) == c.choices /\ c.finish_reason \notin {None, "", "null"}
ReasoningOnly(c) ==
    c.choices /\ Truthy(c.reasoning_content) /\ ~Truthy(c.content) /\ ~RealFinish(c)
ContentOnly(c) ==
    c.choices /\ ~Truthy(c.reasoning_content) /\ Truthy(c.content) /\ ~RealFinish(c)
FinishOnly(c) ==
    c.choices /\ ~Truthy(c.reasoning_content) /\ ~Truthy(c.content) /\ RealFinish(c)

\* a reasoning-only chunks, then b content-only chunks, then a finish-only chunk
ThinkThenAnswer(cs, a, b) ==
    /\ a >= 1
    /\ b >= 1
    /\ Len(cs) = a + b + 1
    /\ \A i \in 1..a : ReasoningOnly(cs[i])
    /\ \A i \in (a + 1)..(a + b) : ContentOnly(cs[i])
    /\ FinishOnly(cs[a + b + 1])

\* C5: reasoning-only chunks, then content-only chunks, then a finish-only
\* chunk give: the opening marker, the reasoning texts in order, the closing
\* marker "\n</think>\n\n", the content texts in order, and one terminal
\* segment with empty text and the chunk's finish_reason.
C5_ThinkThenAnswerSegments ==
    \A a, b \in 1..MaxChunks :
        ThinkThenAnswer(responses, a, b) =>
            /\ Texts(out) =
                  <<ThinkOpen>>
                  \o [i \in 1..a |-> responses[i].reasoning_content]
                  \o <<ThinkCloseBeforeContent>>
                  \o [i \in 1..b |-> responses[a + i].content]
                  \o <<"">>
            /\ Finishes(out) =
                  [i \in 1..(a + b + 2) |-> None]
                  \o <<responses[a + b + 1].finish_reason>>

C5_Witness ==
    /\ ThinkThenAnswer(responses, 2, 1)
    /\ Len(out) = 6
    /\ out[6].finish_reason = "stop"

AnyReasoning(cs) == \E i \in 1..Len(cs) : cs[i].choices /\ Truthy(cs[i].reasoning_content)
StreamFinished(cs) == Len(cs) >= 1 /\ RealFinish(cs[Len(cs)])
ClosingCount(segs) ==
    CountText(segs, ThinkCloseBeforeContent) + CountText(segs, ThinkCloseAtFinish)

\* C6: the opening marker is emitted once if reasoning text occurred and
\* never otherwise; a closing marker is never emitted more often than the
\* opening marker, and exactly once when the opening marker was emitted and
\* the last chunk carried a finish_reason.
C6_MarkersExactlyOnce ==
    /\ CountText(out, ThinkOpen) = (IF AnyReasoning(responses) THEN 1 ELSE 0)
    /\ ClosingCount(out) <= CountText(out, ThinkOpen)
    /\ (StreamFinished(responses) /\ CountText(out, ThinkOpen) = 1) =>
          ClosingCount(out) = 1

Markers == {ThinkOpen, ThinkCloseBeforeContent, ThinkCloseAtFinish}
IsTextSegment(seg) == seg.finish_reason = None /\ seg.content \notin Markers
ChunkTexts(c) ==
    IF c.choices
    THEN (IF Truthy(c.reasoning_content) THEN <<c.reasoning_content>> ELSE <<>>)
         \o (IF Truthy(c.content) THEN <<c.content>> ELSE <<>>)
    ELSE <<>>

RECURSIVE ArrivedTexts(_)
ArrivedTexts(cs) ==
    IF cs = <<>> THEN <<>>
    ELSE ArrivedTexts(SubSeq(cs, 1, Len(cs) - 1)) \o ChunkTexts(cs[Len(cs)])

\* C7: the emitted text segments (markers and terminal segments aside) are
\* the non-empty reasoning_content and content values of the chunks in
\* arrival order, reasoning before content within a chunk; a chunk with no
\* choices emits nothing.
C7_ArrivalOrderPreserved ==
    /\ [](Texts(SelectSeq(out, IsTextSegment)) = ArrivedTexts(responses))
    /\ [][(Len(responses') = Len(responses) + 1
             /\ ~responses'[Len(responses')].choices) => out' = out]_vars

C7_Witness ==
    /\ Len(responses) = 3
    /\ Truthy(responses[1].reasoning_content) /\ Truthy(responses[1].content)
    /\ ~responses[2].choices
    /\ Truthy(responses[3].reasoning_content) /\ Truthy(responses[3].content)
    /\ Len(SelectSeq(out, IsTextSegment)) = 4

\* C8: a chunk with a finish_reason other than "null" ends its segments with
\* a terminal segment (empty text, that finish_reason), right after the
\* closing marker "\n</think>" when thinking was started and content was
\* not; a chunk whose finish_reason is absent or "null" emits no terminal
\* segment.
C8_FinishHandling ==
    [][Len(responses') = Len(responses) + 1 =>
        LET c == responses'[Len(responses')]
            n == Len(out')
        IN IF RealFinish(c)
           THEN /\ n >= Len(out) + 1
                /\ out'[n].content = ""
                /\ out'[n].finish_reason = c.finish_reason
                /\ \A i \in (Len(out) + 1)..(n - 1) : out'[i].finish_reason = None
                /\ (thinking_started' /\ ~content_started') =>
                      /\ n >= Len(out) + 2
                      /\ out'[n - 1].content = ThinkCloseAtFinish
           ELSE \A i \in (Len(out) + 1)..n : out'[i].finish_reason = None]_vars

C8_Witness ==
    /\ Len(out) >= 4
    /\ out[Len(out)].finish_reason = "length"
    /\ out[Len(out)].content = ""
    /\ out[Len(out) - 1].content = ThinkCloseAtFinish
    /\ \E i \in 1..Len(responses) : responses[i].choices /\ responses[i].finish_reason = "null"

\* C26: the index values of the emitted segments start at 0 and are strictly
\* increasing, also when chunks arrive after a chunk with a finish_reason.
C26_IndicesStrictlyIncreasing ==
    /\ Len(out) >= 1 => out[1].index = 0
    /\ \A i \in 1..(Len(out) - 1) : out[i].index < out[i + 1].index

IsReasoningSegment(seg) ==
    IsTextSegment(seg) /\ \E k \in DOMAIN ReasoningTexts : seg.content = ReasoningTexts[k]
IsContentSegment(seg) ==
    IsTextSegment(seg) /\ \E k \in DOMAIN ContentTexts : seg.content = ContentTexts[k]
IsClosing(seg) == seg.content \in {ThinkCloseBeforeContent, ThinkCloseAtFinish}

\* the i-th segment lies after an opening marker that no closing marker follows
InsideThinking(segs, i) ==
    /\ \E j \in 1..(i - 1) : segs[j].content = ThinkOpen
    /\ \A j \in 1..(i - 1) : ~IsClosing(segs[j])

\* C27: every emitted reasoning text lies after the opening marker and
\* before the closing marker, every emitted content text lies outside the
\* marker pair, also when reasoning arrives after content has started or
\* content arrives before any reasoning.
C27_ThinkingWellBracketed ==
    \A i \in 1..Len(out) :
        /\ IsReasoningSegment(out[i]) => InsideThinking(out, i)
        /\ IsContentSegment(out[i]) => ~InsideThinking(out, i)

(***************************************************************************)
(* The non-streaming handler                                               *)
(***************************************************************************)
\* a usage object whose counts are None
EmptyUsage == [present |-> TRUE, input_tokens |-> NoCount, output_tokens |-> NoCount]

\* chunks of a completion read as a whole: usage may come on any chunk,
\* also on one without choices
ResponseChunks(i) ==
    {NoChoices(u) : u \in {NoUsage, UsageOf(i)}} \cup
    {[choices |-> TRUE, reasoning_content |-> r, content |-> c,
      finish_reason |-> None, usage |-> u] :
        r \in {None, ReasoningTexts[i]}, c \in {None, ContentTexts[i]},
        u \in {NoUsage, UsageOf(i), EmptyUsage}}

InitResponse ==
    /\ genPc = "returned"
    /\ prompt_messages = SamplePrompt
    /\ stream = FALSE
    /\ messages = ConvertPromptMessagesToApiMessages(SamplePrompt)
    /\ retry_count = 0
    /\ last_exception = None
    /\ attempts = <<[messages |-> messages, outcome |-> "ok"]>>
    /\ raised = None
    /\ handler = "_handle_generate_response"
    /\ handlerPrompt = SamplePrompt
    /\ PollIdle
    /\ hPc = "collect"
    /\ responses = <<>>
    /\ index = 0
    /\ thinking_started = FALSE
    /\ content_started = FALSE
    /\ out = <<>>
    /\ full_content = ""
    /\ input_tokens = 0
    /\ output_tokens = 0
    /\ result = None
    /\ ToolsIdle

\* lines 236-237
AddContent(full, c) == IF Truthy(c.content) THEN full \o c.content ELSE full

\* lines 240-245: the counts after a chunk that has choices
UsageAfter(old, c, field) == IF c.usage.present THEN OrZero(c.usage[field]) ELSE old

\* lines 229-245: one iteration of the loop over responses
ResponseChunkArrives(c) ==
    /\ hPc = "collect"
    /\ Len(responses) < MaxChunks
    /\ responses' = Append(responses, c)
    /\ IF c.choices
       THEN /\ full_content' = AddContent(full_content, c)
            /\ input_tokens' = UsageAfter(input_tokens, c, "input_tokens")
            /\ output_tokens' = UsageAfter(output_tokens, c, "output_tokens")
       ELSE UNCHANGED <<full_content, input_tokens, output_tokens>>
    /\ UNCHANGED <<hPc, index, thinking_started, content_started, out, result>>
    /\ UNCHANGED <<genVars, pollVars, toolVars>>

\* lines 247-258: the sequence is exhausted and the LLMResult is built
ResponsesExhausted ==
    /\ hPc = "collect"
    /\ result' = [message |-> full_content,
                  prompt_messages |-> handlerPrompt,
                  usage |-> CalcResponseUsage(input_tokens, output_tokens)]
    /\ hPc' = "returned"
    /\ UNCHANGED <<responses, index, thinking_started, content_started, out,
                   full_content, input_tokens, output_tokens>>
    /\ UNCHANGED <<genVars, pollVars, toolVars>>

NextResponse ==
    \/ \E c \in ResponseChunks(Len(responses) + 1) : ResponseChunkArrives(c)
    \/ ResponsesExhausted

SpecResponse == InitResponse /\ [][NextResponse]_vars

(***************************************************************************)
(* Properties of the non-streaming handler                                 *)
(***************************************************************************)
RECURSIVE AllContent(_)
AllContent(cs) ==
    IF cs = <<>> THEN ""
    ELSE AllContent(SubSeq(cs, 1, Len(cs) - 1))
         \o (IF cs[Len(cs)].choices /\ Truthy(cs[Len(cs)].content)
             THEN cs[Len(cs)].content ELSE "")

UsageChunks(cs) == {i \in 1..Len(cs) : cs[i].usage.present}
LastUsageChunk(cs) == CHOOSE i \in UsageChunks(cs) : \A j \in UsageChunks(cs) : j <= i
LastUsageCount(cs, field) ==
    IF UsageChunks(cs) = {} THEN 0 ELSE OrZero(cs[LastUsageChunk(cs)].usage[field])

\* C9: the returned result's text is the concatenation, in arrival order, of
\* the non-empty content values, and its token counts are those of the last
\* chunk that carried usage (0 when none did); the result exists only once
\* the sequence is exhausted.
C9_AggregateResult ==
    /\ hPc = "collect" => result = None
    /\ hPc = "returned" =>
          /\ result.message = AllContent(responses)
          /\ result.usage.prompt_tokens = LastUsageCount(responses, "input_tokens")
          /\ result.usage.completion_tokens = LastUsageCount(responses, "output_tokens")

(***************************************************************************)
(* Job pollers                                                             *)
(***************************************************************************)
POLL_INTERVAL == 3
TIMEOUT == 1800

\* the remote job reports Completed from its completesAt-th status read on
\* and an Error from its errorAt-th status read on (0: never)
MaxCompletesAt == 4
MaxErrorAt == 3

\* seconds a status read may take: no time, or SlowRead
SlowRead == 1000
ReadDurations == {0, SlowRead}

JobError == "parse failed"

NoResponse == [read |-> 0, Completed |-> FALSE, Error |-> ""]

\* client.get_upload_document_job(...) at the k-th read
StatusAt(k) ==
    [read |-> k,
     Completed |-> (completesAt # 0 /\ k >= completesAt),
     Error |-> IF errorAt # 0 /\ k >= errorAt THEN JobError ELSE ""]

TimeoutMessage == "Job polling timeout after 30.0 minutes"
JobFailedMessage(error) == "Job failed with error: " \o error

Elapsed == now - start_time

\* mutant: the budget counted as spent when it is just reached
TimedOutAtLimit(elapsed) == elapsed >= TIMEOUT

\* adbpg_doc_parser.py line 137, get_upload_document_job.py line 52
TimedOut(elapsed) == elapsed > TIMEOUT

InitPoll ==
    /\ GenIdle
    /\ HandlerIdle
    /\ pollPc = "start"
    /\ poller \in {"_poll_job", "_poll_until_finish"}
    /\ completesAt \in 0..MaxCompletesAt
    /\ errorAt \in 0..MaxErrorAt
    /\ now = 0
    /\ start_time = 0
    /\ numReads = 0
    /\ numSleeps = 0
    /\ sleptSeconds = 0
    /\ response = NoResponse
    /\ pollResult = NoResponse
    /\ pollError = None
    /\ ToolsIdle

\* start_time = time.time()
PollStart ==
    /\ pollPc = "start"
    /\ start_time' = now
    /\ pollPc' = "loop"
    /\ UNCHANGED <<poller, completesAt, errorAt, now, numReads, numSleeps,
                   sleptSeconds, response, pollResult, pollError>>
    /\ UNCHANGED <<genVars, hVars, toolVars>>

\* elapsed > TIMEOUT at the top of an iteration
PollTimesOut ==
    /\ pollPc = "loop"
    /\ TimedOut(Elapsed)
    /\ pollError' = TimeoutMessage
    /\ pollPc' = "failed"
    /\ UNCHANGED <<poller, completesAt, errorAt, now, start_time, numReads,
                   numSleeps, sleptSeconds, response, pollResult>>
    /\ UNCHANGED <<genVars, hVars, toolVars>>

\* mutant: an Error alone counts as the end of the job
JobCompletedOrError(resp) == resp.Completed \/ resp.Error # ""

\* adbpg_doc_parser.py line 156
JobCompleted(resp) == resp.Completed

\* mutant: an Error is required besides Completed
JobFinishedWithError(resp) == resp.Completed /\ resp.Error # ""

\* get_upload_document_job.py line 71
JobFinished(resp) == resp.Completed \/ resp.Error # ""

\* AdbpgDocParser._poll_job, lines 136-159: the status read and what follows
PollJobReads(d) ==
    /\ pollPc = "loop"
    /\ poller = "_poll_job"
    /\ ~TimedOut(Elapsed)
    /\ now' = now + d
    /\ numReads' = numReads + 1
    /\ LET resp == StatusAt(numReads + 1)
       IN /\ response' = resp
          /\ IF JobCompleted(resp)
             THEN IF resp.Error # ""
                  THEN /\ pollError' = JobFailedMessage(resp.Error)
                       /\ pollPc' = "failed"
                       /\ UNCHANGED pollResult
                  ELSE /\ pollResult' = resp
                       /\ pollPc' = "returned"
                       /\ UNCHANGED pollError
             ELSE /\ pollPc' = "sleep"
                  /\ UNCHANGED <<pollResult, pollError>>
    /\ UNCHANGED <<poller, completesAt, errorAt, start_time, numSleeps, sleptSeconds>>
    /\ UNCHANGED <<genVars, hVars, toolVars>>

\* GetUploadDocumentJob._poll_until_finish, lines 51-72
PollUntilFinishReads(d) ==
    /\ pollPc = "loop"
    /\ poller = "_poll_until_finish"
    /\ ~TimedOut(Elapsed)
    /\ now' = now + d
    /\ numReads' = numReads + 1
    /\ LET resp == StatusAt(numReads + 1)
       IN /\ response' = resp
          /\ IF JobFinished(resp)
             THEN /\ pollResult' = resp
                  /\ pollPc' = "returned"
             ELSE /\ pollPc' = "sleep"
                  /\ UNCHANGED pollResult
    /\ UNCHANGED <<poller, completesAt, errorAt, start_time, numSleeps,
                   sleptSeconds, pollError>>
    /\ UNCHANGED <<genVars, hVars, toolVars>>

\* time.sleep(POLL_INTERVAL)
PollSleeps ==
    /\ pollPc = "sleep"
    /\ now' = now + POLL_INTERVAL
    /\ numSleeps' = numSleeps + 1
    /\ sleptSeconds' = sleptSeconds + POLL_INTERVAL
    /\ pollPc' = "loop"
    /\ UNCHANGED <<poller, completesAt, errorAt, start_time, numReads,
                   response, pollResult, pollError>>
    /\ UNCHANGED <<genVars, hVars, toolVars>>

NextPoll ==
    \/ PollStart
    \/ PollTimesOut
    \/ \E d \in ReadDurations : PollJobReads(d)
    \/ \E d \in ReadDurations : PollUntilFinishReads(d)
    \/ PollSleeps

SpecPoll == InitPoll /\ [][NextPoll]_vars

(***************************************************************************)
(* Properties of the job pollers                                           *)
(***************************************************************************)
\* the job completes at its k-th read, k >= 1, and reports no Error up to
\* and including that read
CompletesCleanlyAt(k) ==
    /\ k >= 1
    /\ completesAt = k
    /\ (errorAt = 0 \/ errorAt > k)

\* C10: when the first k - 1 reads report Completed=false with empty Error
\* and the k-th reports Completed=true with empty Error, either poller, not
\* timing out, returns the k-th response after exactly k reads and k - 1
\* sleeps of POLL_INTERVAL seconds; nothing is read or slept after the
\* terminal read.
C10_PollReturnsAtCompletion ==
    \A k \in 1..MaxCompletesAt :
        CompletesCleanlyAt(k) =>
            /\ numReads <= k
            /\ numSleeps <= k - 1
            /\ numReads = k => pollPc = "returned"
            /\ pollPc = "failed" => pollError = TimeoutMessage
            /\ pollPc = "returned" =>
                  /\ pollResult = [read |-> k, Completed |-> TRUE, Error |-> ""]
                  /\ numReads = k
                  /\ numSleeps = k - 1
                  /\ sleptSeconds = (k - 1) * POLL_INTERVAL

C10_Witness ==
    /\ poller = "_poll_until_finish"
    /\ CompletesCleanlyAt(3)
    /\ pollPc = "returned"
    /\ pollResult.read = 3
    /\ numSleeps = 2
    /\ sleptSeconds = 6


\* C11: _poll_job on a job that never reports Completed, whatever its Error
\* field holds: it never returns and fails only with the timeout error; an
\* iteration that begins with more than TIMEOUT seconds elapsed fails with
\* that error without a status read, an iteration that begins within
\* TIMEOUT seconds reads the status once, so the failure comes at the first
\* iteration that begins after TIMEOUT.
C11_PollJobTimesOut ==
    /\ []((poller = "_poll_job" /\ completesAt = 0) =>
            /\ pollPc # "returned"
            /\ pollPc = "failed" => (pollError = TimeoutMessage /\ Elapsed > TIMEOUT)
            /\ pollPc = "loop" => numReads = numSleeps
            /\ pollPc = "sleep" => numReads = numSleeps + 1)
    /\ [][(poller = "_poll_job" /\ completesAt = 0) =>
            /\ (pollPc = "loop" /\ Elapsed > TIMEOUT) =>
                  (pollPc' = "failed" /\ pollError' = TimeoutMessage
                   /\ numReads' = numReads)
            /\ (pollPc = "loop" /\ Elapsed <= TIMEOUT) =>
                  (pollPc' = "sleep" /\ numReads' = numReads + 1)
            /\ numReads' # numReads => (pollPc = "loop" /\ Elapsed <= TIMEOUT)]_vars

\* the read at exactly TIMEOUT seconds was made, the next iteration failed
C11_Witness ==
    /\ poller = "_poll_job"
    /\ completesAt = 0
    /\ errorAt = 1
    /\ pollPc = "failed"
    /\ pollError = TimeoutMessage
    /\ numReads = 601
    /\ Elapsed = TIMEOUT + POLL_INTERVAL

\* C12: in either poller, a status read that reports Completed=true with a
\* non-empty Error makes polling fail with the job-failed error carrying
\* that text; the response is not returned.
C12_CompletedWithErrorFails ==
    (numReads >= 1 /\ response.Completed /\ response.Error # "") =>
        /\ pollPc = "failed"
        /\ pollError = JobFailedMessage(response.Error)

\* a status read that reports an Error and no completion has just been made
ErrorWithoutCompletionRead ==
    /\ numReads' = numReads + 1
    /\ response'.Error # ""
    /\ ~response'.Completed

\* C24: on a status read with a non-empty Error and Completed not true,
\* _poll_until_finish stops at that read and returns that response, while
\* _poll_job goes on polling: it sleeps and reads again, and ends only on a
\* read with Completed=true or on the timeout.
C24_ErrorWithoutCompletion ==
    /\ [][ErrorWithoutCompletionRead =>
            IF poller = "_poll_until_finish"
            THEN /\ pollPc' = "returned"
                 /\ pollResult' = response'
                 /\ pollError' = None
            ELSE /\ pollPc' = "sleep"
                 /\ pollResult' = pollResult
                 /\ pollError' = pollError]_vars
    /\ [][pollPc \notin {"returned", "failed"}]_vars
    /\ [](poller = "_poll_until_finish" =>
            /\ pollPc = "returned" => (pollResult = response /\ numReads = response.read)
            /\ (numReads >= 1 /\ response.Error # "") => pollPc = "returned")
    /\ [](poller = "_poll_job" =>
            /\ pollPc = "returned" => (pollResult.Completed /\ pollResult = response)
            /\ pollPc = "failed" => (pollError = TimeoutMessage \/ response.Completed))

\* _poll_job read an Error twice without completion and went on to the
\* read that reported Completed
C24_Witness ==
    /\ poller = "_poll_job"
    /\ errorAt = 1
    /\ completesAt = 3
    /\ numReads = 3
    /\ numSleeps = 2
    /\ pollPc = "failed"
    /\ pollError = JobFailedMessage(JobError)

(***************************************************************************)
(* File resolution: tools/base/file_utils.py.  A tool opens                *)
(* resolve_file_context(file_url), runs its body with the ResolvedFile and *)
(* leaves the with statement.  The disk is the set of paths of existing    *)
(* regular files.                                                          *)
(***************************************************************************)
UserFiles == {"/data/report.pdf", "/data/notes.txt"}

\* a temporary file that belongs to another request
ForeignTemp == "/tmp/tmp0.tmp"

\* names NamedTemporaryFile(suffix=".tmp") may pick
TempNames == {"/tmp/tmp1.tmp", "/tmp/tmp2.tmp"}

Locators == UserFiles \cup {"/files/tools/1.pdf", "https://example.com/1.pdf", ""}

\* requests.get fails, raise_for_status fails, NamedTemporaryFile fails,
\* writing the chunks fails, or the file is saved
DownloadOutcomes == {"network_error", "http_error", "tempfile_error", "save_error", "ok"}

DownloadFailures == DownloadOutcomes \ {"ok"}

\* os.path.isfile, os.path.exists
IsFile(path, disk) == path \in disk

\* mutant: the partly written file stays on disk
SaveFailureDiskKeepsFile(t, disk) == disk \cup {t}

\* lines 75 and 83-88: the file is created, the write fails, the handler
\* closes it and unlinks it if it exists
SaveFailureDisk(t, disk) ==
    LET created == disk \cup {t}
    IN  IF IsFile(t, created) THEN created \ {t} ELSE created

\* download_file_from_dify, lines 39-90: what it raises, the path it
\* returns, the disk afterwards and the temporary file it created
DownloadFileFromDify(outcome, t, disk) ==
    CASE outcome \in {"network_error", "http_error"} ->
            [raised |-> "Failed to download file from Dify", path |-> None,
             disk |-> disk, created |-> None]
      [] outcome = "tempfile_error" ->
            [raised |-> "OSError", path |-> None, disk |-> disk, created |-> None]
      [] outcome = "save_error" ->
            [raised |-> "Failed to save downloaded file", path |-> None,
             disk |-> SaveFailureDisk(t, disk), created |-> t]
      [] OTHER ->
            [raised |-> None, path |-> t, disk |-> disk \cup {t}, created |-> t]

\* mutant: a local file handed over as the temporary file
LocalResolvedAsTemp(path) == ResolvedFile("local", path, None, path)

\* lines 125-131
LocalResolved(path) == ResolvedFile("local", path, None, None)

\* mutant: the downloaded file is not registered for cleanup
DifyResolvedNoTemp(path) == ResolvedFile("dify", path, None, None)

\* lines 138-144
DifyResolved(path) == ResolvedFile("dify", path, None, path)

\* lines 145-151
RemoteResolved(url) == ResolvedFile("remote", None, url, None)

\* mutant: cleanup that deletes nothing
CleanupTempFileSkips(temp_file_path, disk, unlinkOk) ==
    [disk |-> disk, failed |-> FALSE, logged |-> 0, raised |-> None]

\* cleanup_temp_file, lines 93-105: os.unlink either removes the file or
\* raises; the except clause logs a warning and raises nothing
CleanupTempFile(temp_file_path, disk, unlinkOk) ==
    IF temp_file_path # None /\ temp_file_path # "" /\ IsFile(temp_file_path, disk)
    THEN IF unlinkOk
         THEN [disk |-> disk \ {temp_file_path}, failed |-> FALSE, logged |-> 0,
               raised |-> None]
         ELSE [disk |-> disk, failed |-> TRUE, logged |-> 1, raised |-> None]
    ELSE [disk |-> disk, failed |-> FALSE, logged |-> 0, raised |-> None]

InitResolve ==
    /\ GenIdle
    /\ HandlerIdle
    /\ PollIdle
    /\ EndpointIdle
    /\ ExtIdle
    /\ fPc = "start"
    /\ file_url \in Locators
    /\ files \in SUBSET (UserFiles \cup {ForeignTemp})
    /\ download_outcome = "none"
    /\ download_attempts = 0
    /\ temp_created = None
    /\ resolved = NoResolved
    /\ body_outcome = "none"
    /\ unlink_failed = FALSE
    /\ warnings = 0
    /\ propagated = None
    /\ call_state = "none"

\* resolve_file, lines 123-131: the locator is an existing local file
ResolveLocalFile ==
    /\ fPc = "start"
    /\ IsFile(file_url, files)
    /\ resolved' = LocalResolved(file_url)
    /\ fPc' = "body"
    /\ UNCHANGED <<file_url, files, download_outcome, download_attempts,
                   temp_created, body_outcome, unlink_failed, warnings, propagated,
                   call_state>>
    /\ UNCHANGED <<genVars, hVars, pollVars, epVars, extVars>>

\* resolve_file, lines 133-151: the download is tried; any exception of it
\* is caught and the locator is handed back as a remote URL
ResolveDownloads(outcome, t) ==
    /\ fPc = "start"
    /\ ~IsFile(file_url, files)
    /\ ~IsFile(t, files)
    /\ LET d == DownloadFileFromDify(outcome, t, files)
       IN  /\ download_outcome' = outcome
           /\ download_attempts' = download_attempts + 1
           /\ files' = d.disk
           /\ temp_created' = d.created
           /\ resolved' = IF d.raised = None
                          THEN DifyResolved(d.path)
                          ELSE RemoteResolved(file_url)
    /\ fPc' = "body"
    /\ UNCHANGED <<file_url, body_outcome, unlink_failed, warnings, propagated,
                   call_state>>
    /\ UNCHANGED <<genVars, hVars, pollVars, epVars, extVars>>

\* mutant: the temporary file is removed before the call that reads it
CallStartsAfterCleanup ==
    /\ fPc = "body"
    /\ call_state = "none"
    /\ call_state' = "running"
    /\ files' = files \ {resolved.temp_file}
    /\ UNCHANGED <<fPc, file_url, download_outcome, download_attempts,
                   temp_created, resolved, body_outcome, unlink_failed, warnings,
                   propagated>>
    /\ UNCHANGED <<genVars, hVars, pollVars, epVars, extVars>>

\* The body of the with block in the tools (upload_document_async.py lines
\* 19-28, query_content_image.py lines 20-29, adbpg_doc_parser.py lines
\* 170-176, file_utils.py lines 200-206): the remote upload or query call is
\* made with resolved.local_path, or with the URL when there is none
CallStarts ==
    /\ fPc = "body"
    /\ call_state = "none"
    /\ call_state' = "running"
    /\ UNCHANGED <<fPc, file_url, files, download_outcome, download_attempts,
                   temp_created, resolved, body_outcome, unlink_failed, warnings,
                   propagated>>
    /\ UNCHANGED <<genVars, hVars, pollVars, epVars, extVars>>

\* the call returns its response; the body goes on inside the with block
CallReturns ==
    /\ fPc = "body"
    /\ call_state = "running"
    /\ call_state' = "returned"
    /\ UNCHANGED <<fPc, file_url, files, download_outcome, download_attempts,
                   temp_created, resolved, body_outcome, unlink_failed, warnings,
                   propagated>>
    /\ UNCHANGED <<genVars, hVars, pollVars, epVars, extVars>>

\* the call raises; the exception leaves the body
CallRaises ==
    /\ fPc = "body"
    /\ call_state = "running"
    /\ call_state' = "raised"
    /\ body_outcome' = "raised"
    /\ fPc' = "exit"
    /\ UNCHANGED <<file_url, files, download_outcome, download_attempts,
                   temp_created, resolved, unlink_failed, warnings, propagated>>
    /\ UNCHANGED <<genVars, hVars, pollVars, epVars, extVars>>

\* resolve_file_context, lines 173-174: the body of the with block ends
\* after the call has returned and the messages have been yielded
BodyCompletes ==
    /\ fPc = "body"
    /\ call_state = "returned"
    /\ body_outcome' = "completed"
    /\ fPc' = "exit"
    /\ UNCHANGED <<file_url, files, download_outcome, download_attempts,
                   temp_created, resolved, unlink_failed, warnings, propagated,
                   call_state>>
    /\ UNCHANGED <<genVars, hVars, pollVars, epVars, extVars>>

\* the body raises outside the call: before it, or after it when a later
\* step fails or the generator is closed at a yield
BodyRaises ==
    /\ fPc = "body"
    /\ call_state \in {"none", "returned"}
    /\ body_outcome' = "raised"
    /\ fPc' = "exit"
    /\ UNCHANGED <<file_url, files, download_outcome, download_attempts,
                   temp_created, resolved, unlink_failed, warnings, propagated,
                   call_state>>
    /\ UNCHANGED <<genVars, hVars, pollVars, epVars, extVars>>

\* resolve_file_context, lines 175-176: the finally clause
ScopeExit(unlinkOk) ==
    /\ fPc = "exit"
    /\ LET c == CleanupTempFile(resolved.temp_file, files, unlinkOk)
       IN  /\ files' = c.disk
           /\ unlink_failed' = c.failed
           /\ warnings' = warnings + c.logged
           /\ propagated' = IF c.raised # None THEN c.raised
                            ELSE IF body_outcome = "raised" THEN "BodyError"
                            ELSE None
    /\ fPc' = "exited"
    /\ UNCHANGED <<file_url, download_outcome, download_attempts, temp_created,
                   resolved, body_outcome, call_state>>
    /\ UNCHANGED <<genVars, hVars, pollVars, epVars, extVars>>

NextResolve ==
    \/ ResolveLocalFile
    \/ \E outcome \in DownloadOutcomes, t \in TempNames : ResolveDownloads(outcome, t)
    \/ CallStarts
    \/ CallReturns
    \/ CallRaises
    \/ BodyCompletes
    \/ BodyRaises
    \/ \E unlinkOk \in BOOLEAN : ScopeExit(unlinkOk)

SpecResolve == InitResolve /\ [][NextResolve]_vars

(***************************************************************************)
(* Properties of file resolution                                           *)
(***************************************************************************)
IsSet(field) == field # None

Resolved == fPc \in {"body", "exit", "exited"}

\* C13: every ResolvedFile returned by resolve_file has exactly one of
\* local_path and remote_url set, and has temp_file set exactly when its
\* source is dify, in which case temp_file equals local_path.
C13_ResolvedFileShape ==
    Resolved =>
        /\ IsSet(resolved.local_path) # IsSet(resolved.remote_url)
        /\ IsSet(resolved.temp_file) <=> resolved.source = "dify"
        /\ resolved.source = "dify" => resolved.temp_file = resolved.local_path

C13_Witness ==
    /\ fPc = "body"
    /\ resolved.source = "dify"
    /\ IsSet(resolved.temp_file)
    /\ resolved.temp_file = resolved.local_path
    /\ IsFile(resolved.temp_file, files)

\* What the with statement lets out: nothing, or the exception of its body.
ScopeRaisesOnlyBodyError ==
    /\ body_outcome = "completed" => propagated = None
    /\ body_outcome = "raised" => propagated = "BodyError"

\* C14, as claimed: after a use of resolve_file_context in which a temporary
\* file was created, the file no longer exists, whether the body completed
\* or raised, and a failure of the deletion is logged and not raised.
C14_TempFileGoneAfterExit ==
    (fPc = "exited" /\ IsSet(temp_created)) =>
        /\ ~IsFile(temp_created, files)
        /\ unlink_failed => warnings = 1
        /\ ScopeRaisesOnlyBodyError

\* C14, amended: after a use of resolve_file_context in which a temporary
\* file was created, the file no longer exists unless its deletion failed,
\* whether the body completed or raised; a failed deletion is logged once,
\* is not raised, and leaves the file on disk.
C14_TempFileGoneUnlessUnlinkFails ==
    (fPc = "exited" /\ IsSet(temp_created)) =>
        /\ ~unlink_failed => (~IsFile(temp_created, files) /\ warnings = 0)
        /\ unlink_failed => (IsFile(temp_created, files) /\ warnings = 1)
        /\ ScopeRaisesOnlyBodyError

C14_Witness ==
    /\ fPc = "exited"
    /\ resolved.source = "dify"
    /\ resolved.temp_file = temp_created
    /\ body_outcome = "raised"
    /\ ~unlink_failed
    /\ ~IsFile(temp_created, files)
    /\ propagated = "BodyError"

\* C15: a locator that names an existing local file resolves to source
\* local with local_path equal to the locator; no download is attempted, no
\* temporary file is created, and nothing is deleted up to and including
\* the exit of the scope, so the file still exists.
C15_LocalFileUntouched ==
    /\ []((Resolved /\ resolved.source = "local") =>
            /\ resolved = ResolvedFile("local", file_url, None, None)
            /\ download_attempts = 0
            /\ download_outcome = "none"
            /\ temp_created = None
            /\ IsFile(file_url, files)
            /\ warnings = 0)
    /\ [][(fPc = "start" /\ IsFile(file_url, files)) =>
             resolved'.source = "local"]_vars
    /\ [][resolved.source = "local" => files' = files]_vars

C15_Witness ==
    /\ fPc = "exited"
    /\ resolved.source = "local"
    /\ resolved.local_path = file_url
    /\ file_url \in UserFiles
    /\ IsFile(file_url, files)

MaxMatches == 2

Ws(c) == [kind |-> "ws", text |-> c, value |-> NoBody]
Garbage == [kind |-> "text", text |-> "{\"query\": ", value |-> NoBody]
Doc(v) == [kind |-> "json", text |-> "", value |-> v]

TopKs == {Absent, JsonNull, Num(-1), Num(0), Num(1), Num(2)}
ScoreThresholds == {Absent, JsonNull, Num(0), Num(600)}

RetrievalSettings ==
    {NoSetting, [kind |-> "null", top_k |-> Absent, score_threshold |-> Absent]}
    \cup {[kind |-> "object", top_k |-> k, score_threshold |-> t] :
            k \in TopKs, t \in ScoreThresholds}

JsonNullBody == [NoBody EXCEPT !.kind = "null"]

\* a JSON list, string, number or boolean
JsonOtherBody == [NoBody EXCEPT !.kind = "other"]

JsonObjects ==
    {[kind |-> "object", extra |-> x, knowledge_id |-> k, query |-> q,
      retrieval_setting |-> rs] :
        x \in BOOLEAN, k \in {Absent, Str(""), Str("kb1")},
        q \in {Absent, JsonNull, Str(""), Str("what is adbpg")},
        rs \in RetrievalSettings}

JsonValues == {JsonNullBody, JsonOtherBody} \cup JsonObjects

RawBodies ==
    {<<>>, <<Ws(" ")>>, <<Ws("\n"), Ws("\t")>>, <<Garbage>>, <<Ws(" "), Garbage>>}
    \cup {<<Doc(v)>> : v \in JsonValues}
    \cup {<<Doc(v), Ws("\n")>> : v \in JsonValues}

\* the error texts of the remote call, as pieces
ErrorTexts ==
    {<<"Error: ", "NotFound", ".Collection">>, <<"Throttling.User">>,
     <<"collection not found">>}

MatchKinds ==
    {[RerankScore |-> r, Score |-> sc] :
        r \in {Absent, Num(-2), Num(1)}, sc \in {Absent, Num(0), Num(2)}}

FileNames == <<"doc1", "doc2", "doc3", "doc4">>
Contents == <<"text1", "text2", "text3", "text4">>

\* the i-th entry of a MatchList
MatchAt(i, k) ==
    [FileName |-> FileNames[i], Content |-> Contents[i], RerankScore |-> k.RerankScore, Score |-> k.Score]

MatchLists ==
    UNION {{[i \in 1..n |-> MatchAt(i, f[i])] : f \in [1..n -> MatchKinds]} :
              n \in 0..MaxMatches}

RemoteResults ==
    {[kind |-> "error", text |-> t, matches |-> <<>>] : t \in ErrorTexts}
    \cup {[kind |-> "ok", text |-> <<>>, matches |-> m] : m \in MatchLists}

\* line 19: the body is empty or strips to nothing
IsBlank(data) == \A i \in 1..Len(data) : data[i].kind = "ws"

\* lines 30-31, r.get_json(force=True): surrounding whitespace is skipped;
\* exactly one JSON text parses to its value, anything else raises
GetJson(data) ==
    LET core == SelectSeq(data, LAMBDA piece : piece.kind # "ws")
    IN  IF Len(core) = 1 /\ core[1].kind = "json"
        THEN [raised |-> None, value |-> core[1].value]
        ELSE [raised |-> "BadRequest", value |-> NoBody]

\* len(body) of a JSON object
IsEmptyObject(b) ==
    /\ b.kind = "object"
    /\ ~b.extra
    /\ b.knowledge_id.kind = "absent"
    /\ b.query.kind = "absent"
    /\ b.retrieval_setting.kind = "absent"

\* mutant: only null counts as a probe
IsProbeBodyNullOnly(b) == b.kind = "null"

\* line 43
IsProbeBody(b) == b.kind = "null" \/ IsEmptyObject(b)

\* dict.get(key, default)
Get(v, default) == IF v.kind = "absent" THEN default ELSE v

\* Python truth value of a JSON value
IsTruthy(v) ==
    \/ v.kind = "string" /\ v.str # ""
    \/ v.kind = "number" /\ v.num # 0

HttpResponse(status, json) == [status_code |-> status, json |-> json]

\* lines 23-27 and 45-49
ReadyResponse == HttpResponse(200, [status |-> "ok", message |-> "Endpoint is ready"])

\* mutant: the parse failure answered with a client error status
InvalidJsonResponseAs400(e) ==
    HttpResponse(400, [error_code |-> 1002, error_msg |-> <<"Invalid JSON: ", e>>])

\* lines 34-40
InvalidJsonResponse(e) ==
    HttpResponse(200, [error_code |-> 1002, error_msg |-> <<"Invalid JSON: ", e>>])

\* lines 75-81 and 84-90, 111-125
ErrorResponse(code, msg) == HttpResponse(400, [error_code |-> code, error_msg |-> msg])

\* line 109: "NotFound" in error_str
ContainsNotFound(text) == \E i \in 1..Len(text) : text[i] = "NotFound"

\* mutant: the two codes exchanged
RemoteErrorCodeSwapped(text) == IF ContainsNotFound(text) THEN 1002 ELSE 2001

\* lines 109-125
RemoteErrorCode(text) == IF ContainsNotFound(text) THEN 2001 ELSE 1002

\* line 138, 1 / (1 + exp(-x)) in thousandths
Sigmoid(x) ==
    CASE x = -2 -> 119
      [] x = -1 -> 269
      [] x = 0 -> 500
      [] x = 1 -> 731
      [] OTHER -> 881

\* lines 133-135: RerankScore, else Score, else 0.0
RawScore(match) ==
    IF match.RerankScore.kind \in {"absent", "null"}
    THEN Get(match.Score, Num(0))
    ELSE match.RerankScore

\* lines 145-150
Record(match) ==
    [title |-> match.FileName, content |-> match.Content,
     score |-> Sigmoid(RawScore(match).num)]

\* mutant: the threshold compared with the raw score
RECURSIVE PassingRaw(_, _)
PassingRaw(matches, score_threshold) ==
    IF matches = <<>> THEN <<>>
    ELSE LET rest == PassingRaw(Tail(matches), score_threshold)
         IN  IF RawScore(Head(matches)).num * 1000 < score_threshold
             THEN rest
             ELSE <<Record(Head(matches))>> \o rest

\* lines 131-152: the records that pass the threshold, in match order
RECURSIVE Passing(_, _)
Passing(matches, score_threshold) ==
    IF matches = <<>> THEN <<>>
    ELSE LET record == Record(Head(matches))
             rest == Passing(Tail(matches), score_threshold)
         IN  IF record.score < score_threshold THEN rest ELSE <<record>> \o rest

\* mutant: no truncation
PySliceAll(records, top_k) == records

\* line 153: records[:top_k]
PySlice(records, top_k) ==
    IF top_k.kind = "null" THEN records
    ELSE IF top_k.num >= 0 THEN SubSeq(records, 1, Min(top_k.num, Len(records)))
    ELSE SubSeq(records, 1, Max(Len(records) + top_k.num, 0))

\* what one run of _invoke gives: the Response or the exception that leaves
\* it, the parsed body, and whether query_content_text was called
Outcome(resp, exc, b, called) ==
    [response |-> resp, raised |-> exc, body |-> b, called |-> called]

\* lines 127-165: the remote call returned
PostProcess(b, matches) ==
    LET score_threshold == Get(b.retrieval_setting.score_threshold, Num(0))
        top_k == Get(b.retrieval_setting.top_k, Num(10))
    IN  IF matches # <<>> /\ score_threshold.kind = "null"
        THEN Outcome(NoHttpResponse, "TypeError", b, TRUE)
        ELSE Outcome(HttpResponse(200,
                        [records |-> PySlice(Passing(matches, score_threshold.num),
                                             top_k)]),
                     None, b, TRUE)

\* lines 53-165: the body is a JSON value that is not a probe
Retrieve(b, remote) ==
    IF b.kind # "object" \/ b.retrieval_setting.kind \notin {"absent", "object"}
    THEN Outcome(NoHttpResponse, "AttributeError", b, FALSE)
    ELSE IF ~IsTruthy(Get(b.query, JsonNull))
    THEN Outcome(ErrorResponse(1002, <<"query is required">>), None, b, FALSE)
    ELSE IF ~IsTruthy(Get(b.knowledge_id, JsonNull))
    THEN Outcome(ErrorResponse(1002, <<"knowledge_id is required">>), None, b, FALSE)
    ELSE IF remote.kind = "error"
    THEN Outcome(ErrorResponse(RemoteErrorCode(remote.text), remote.text),
                 None, b, TRUE)
    ELSE PostProcess(b, remote.matches)

\* lines 17-165
Invoke(data, remote) ==
    IF IsBlank(data) THEN Outcome(ReadyResponse, None, NoBody, FALSE)
    ELSE LET parsed == GetJson(data)
         IN  IF parsed.raised # None
             THEN Outcome(InvalidJsonResponse(parsed.raised), None, NoBody, FALSE)
             ELSE IF IsProbeBody(parsed.value)
             THEN Outcome(ReadyResponse, None, parsed.value, FALSE)
             ELSE Retrieve(parsed.value, remote)

InitEndpoint ==
    /\ GenIdle
    /\ HandlerIdle
    /\ PollIdle
    /\ FileIdle
    /\ ExtIdle
    /\ epPc = "request"
    /\ request_data \in RawBodies
    /\ body = NoBody
    /\ remote_calls = 0
    /\ remote_result = NoRemoteResult
    /\ http_response = NoHttpResponse
    /\ epRaised = None

\* _invoke, lines 13-165, with what the remote service does if it is asked
EndpointInvoke(remote) ==
    /\ epPc = "request"
    /\ LET o == Invoke(request_data, remote)
       IN  /\ body' = o.body
           /\ remote_calls' = IF o.called THEN remote_calls + 1 ELSE remote_calls
           /\ remote_result' = IF o.called THEN remote ELSE NoRemoteResult
           /\ http_response' = o.response
           /\ epRaised' = o.raised
           /\ epPc' = IF o.raised = None THEN "responded" ELSE "raised"
    /\ UNCHANGED request_data
    /\ UNCHANGED <<genVars, hVars, pollVars, fileVars, extVars>>

NextEndpoint == \E remote \in RemoteResults : EndpointInvoke(remote)

SpecEndpoint == InitEndpoint /\ [][NextEndpoint]_vars

(***************************************************************************)
(* Properties of the retrieval endpoint                                    *)
(***************************************************************************)
Answered == epPc \in {"responded", "raised"}

JsonHas(key) == key \in DOMAIN http_response.json

IsReady ==
    /\ epPc = "responded"
    /\ http_response = [status_code |-> 200,
                        json |-> [status |-> "ok", message |-> "Endpoint is ready"]]

IsError(status, code) ==
    /\ epPc = "responded"
    /\ epRaised = None
    /\ http_response.status_code = status
    /\ DOMAIN http_response.json = {"error_code", "error_msg"}
    /\ http_response.json.error_code = code

\* the request body is one JSON text, possibly inside whitespace
BodyIsJson ==
    /\ ~IsBlank(request_data)
    /\ GetJson(request_data).raised = None

EmptyObjectBody ==
    BodyIsJson /\ IsEmptyObject(GetJson(request_data).value)

\* C17: a request whose body is empty, is whitespace only, or is the empty
\* JSON object is answered with HTTP 200 and {status: "ok", message:
\* "Endpoint is ready"}, and the remote service is not called.
C17_ReadinessProbe ==
    (Answered /\ (IsBlank(request_data) \/ EmptyObjectBody)) =>
        /\ IsReady
        /\ remote_calls = 0

C17_Witness ==
    /\ Answered
    /\ EmptyObjectBody
    /\ IsReady
    /\ remote_calls = 0

NonEmptyObjectBody ==
    /\ BodyIsJson
    /\ GetJson(request_data).value.kind = "object"
    /\ ~IsEmptyObject(GetJson(request_data).value)

FieldEmpty(v) == v.kind \in {"absent", "null"} \/ (v.kind = "string" /\ v.str = "")

\* C18: a non-empty JSON object body whose query is missing or empty, or
\* whose knowledge_id is missing or empty, is answered with HTTP 400 and
\* error_code 1002; the remote service is called only when both fields are
\* non-empty, and at most once per request.
C18_RequiredFields ==
    (Answered /\ NonEmptyObjectBody) =>
        LET b == GetJson(request_data).value
        IN  /\ (FieldEmpty(b.query) \/ FieldEmpty(b.knowledge_id)) => IsError(400, 1002)
            /\ remote_calls <= 1
            /\ remote_calls = 1 => (~FieldEmpty(b.query) /\ ~FieldEmpty(b.knowledge_id))

RemoteFailed == Answered /\ remote_result.kind = "error"

\* C19: when the remote query fails, the answer is HTTP 400 with error_code
\* 2001 if the error text contains "NotFound" and HTTP 400 with error_code
\* 1002 otherwise; no exception leaves the handler and the answer has no
\* records.
C19_RemoteFailureMapping ==
    RemoteFailed =>
        /\ epRaised = None
        /\ ~JsonHas("records")
        /\ http_response.json.error_msg = remote_result.text
        /\ IF \E i \in 1..Len(remote_result.text) : remote_result.text[i] = "NotFound"
           THEN IsError(400, 2001)
           ELSE IsError(400, 1002)

C19_Witness ==
    /\ RemoteFailed
    /\ remote_calls = 1
    /\ remote_result.text = <<"Error: ", "NotFound", ".Collection">>
    /\ IsError(400, 2001)

\* the request body is not blank and is not one JSON text
MalformedBody ==
    /\ ~IsBlank(request_data)
    /\ \/ \E i \in 1..Len(request_data) : request_data[i].kind = "text"
       \/ Len(SelectSeq(request_data, LAMBDA piece : piece.kind = "json")) # 1

\* C20: a non-empty request body that is not valid JSON is answered with
\* HTTP 200 and error_code 1002, and the remote service is not called.
C20_MalformedBody ==
    (Answered /\ MalformedBody) =>
        /\ IsError(200, 1002)
        /\ remote_calls = 0

C20_Witness ==
    /\ Answered
    /\ request_data = <<Ws(" "), Garbage>>
    /\ IsError(200, 1002)
    /\ remote_calls = 0

\* the success response of a request whose top_k is a count (10 by default)
\* and whose score_threshold is a number (0.0 by default)
RequestedTopK == Get(body.retrieval_setting.top_k, Num(10))
RequestedThreshold == Get(body.retrieval_setting.score_threshold, Num(0))

SuccessResponse ==
    /\ epPc = "responded"
    /\ remote_result.kind = "ok"
    /\ http_response.status_code = 200
    /\ JsonHas("records")
    /\ RequestedTopK.kind = "number"
    /\ RequestedTopK.num >= 0
    /\ RequestedThreshold.kind = "number"

\* RerankScore when the match has one, otherwise Score, otherwise 0.0
RawOf(match) ==
    IF match.RerankScore.kind = "number" THEN match.RerankScore.num
    ELSE IF match.Score.kind = "number" THEN match.Score.num
    ELSE 0

NormalizedOf(match) == Sigmoid(RawOf(match))

PassesThreshold(match) == NormalizedOf(match) >= RequestedThreshold.num

PassingMatches == SelectSeq(remote_result.matches, PassesThreshold)

HasTemp == IsSet(resolved.temp_file)

TempDeleted ==
    /\ HasTemp
    /\ IsFile(resolved.temp_file, files)
    /\ ~IsFile(resolved.temp_file, files')

\* C30: a temporary file created by file resolution exists from the entry
\* of the with block through the whole remote call that reads it; it is
\* deleted only by the exit of the scope, after that call has returned or
\* raised, never before the call and never while it is in progress.
C30_TempFileOutlivesCall ==
    /\ []((fPc = "body" /\ HasTemp) => IsFile(resolved.temp_file, files))
    /\ []((call_state = "running" /\ HasTemp) =>
            (fPc = "body" /\ IsFile(resolved.temp_file, files)))
    /\ [][TempDeleted =>
            /\ fPc = "exit"
            /\ fPc' = "exited"
            /\ call_state # "running"]_vars

C30_Witness ==
    /\ fPc = "body"
    /\ resolved.source = "dify"
    /\ call_state = "running"
    /\ resolved.local_path = resolved.temp_file
    /\ IsFile(resolved.temp_file, files)

(***************************************************************************)
(* Rerank: models/rerank/rerank.py, AdbpgRerankModel._invoke.              *)
(* Scores and thresholds are in thousandths.                               *)
(***************************************************************************)
MaxDocs == 3
MaxResults == 2

DocTexts == <<"d1", "d2", "d3", "d4">>

\* top_n: None, or an integer
TopNs == {Absent, Num(0), Num(1), Num(2), Num(5)}

\* score_threshold: None, 0.0 or 0.6
RerankThresholds == {Absent, Num(0), Num(600)}

\* one entry of response["Results"]["Results"]
RerankResultsOver(n) ==
    {[Index |-> i, RelevanceScore |-> sc, Document |-> DocTexts[i + 1]] :
        i \in 0..(n - 1), sc \in {Absent, Num(-2), Num(1)}}

\* what api_helper.rerank may give: an exception, a response without
\* Results, or a list of results in the remote order
RerankResponses(n) ==
    {[kind |-> "error", results |-> <<>>], [kind |-> "no_results", results |-> <<>>]}
    \cup {[kind |-> "ok", results |-> r] :
            r \in UNION {[1..len -> RerankResultsOver(n)] : len \in 0..MaxResults}}

\* mutant: top_n requested as it is
RerankTopKNoCap(top_n, n) == IF top_n.kind = "number" THEN top_n.num ELSE n

\* line 60
RerankTopK(top_n, n) == IF top_n.kind = "number" THEN Min(top_n.num, n) ELSE n

\* lines 76-86
RerankDocument(r) ==
    [index |-> r.Index, score |-> Sigmoid(Get(r.RelevanceScore, Num(0)).num),
     text |-> r.Document]

\* lines 88-92
RerankKeeps(document, score_threshold) ==
    IF score_threshold.kind = "number"
    THEN document.score >= score_threshold.num
    ELSE TRUE

\* lines 69-94
RECURSIVE RerankDocuments(_, _)
RerankDocuments(results, score_threshold) ==
    IF results = <<>> THEN <<>>
    ELSE LET document == RerankDocument(Head(results))
             rest == RerankDocuments(Tail(results), score_threshold)
         IN  IF RerankKeeps(document, score_threshold)
             THEN <<document>> \o rest
             ELSE rest

InitRerank ==
    /\ GenIdle
    /\ HandlerIdle
    /\ PollIdle
    /\ FileIdle
    /\ EndpointIdle
    /\ FacadeIdle
    /\ ChatToolIdle
    /\ rrPc = "start"
    /\ rr_docs \in {SubSeq(DocTexts, 1, n) : n \in 0..MaxDocs}
    /\ rr_top_n \in TopNs
    /\ rr_score_threshold \in RerankThresholds
    /\ rr_requests = <<>>
    /\ rr_response = NoRerankResponse
    /\ rr_result = <<>>
    /\ rrRaised = None

\* _invoke, lines 55-94, with what the remote service does if it is asked
RerankInvoke(resp) ==
    /\ rrPc = "start"
    /\ IF Len(rr_docs) = 0
       THEN /\ rrPc' = "returned"
            /\ rr_result' = <<>>
            /\ UNCHANGED <<rr_requests, rr_response, rrRaised>>
       ELSE /\ rr_requests' = Append(rr_requests, RerankTopK(rr_top_n, Len(rr_docs)))
            /\ rr_response' = resp
            /\ IF resp.kind = "error"
               THEN /\ rrPc' = "raised"
                    /\ rrRaised' = "RemoteError"
                    /\ UNCHANGED rr_result
               ELSE /\ rrPc' = "returned"
                    /\ rr_result' = RerankDocuments(resp.results, rr_score_threshold)
                    /\ UNCHANGED rrRaised
    /\ UNCHANGED <<rr_docs, rr_top_n, rr_score_threshold>>
    /\ UNCHANGED <<genVars, hVars, pollVars, fileVars, epVars, facadeVars, chatVars>>

NextRerank == \E resp \in RerankResponses(Len(rr_docs)) : RerankInvoke(resp)

SpecRerank == InitRerank /\ [][NextRerank]_vars

(***************************************************************************)
(* Properties of rerank                                                    *)
(***************************************************************************)
ExpectedTopK ==
    IF rr_top_n.kind # "number" THEN Len(rr_docs)
    ELSE IF rr_top_n.num < Len(rr_docs) THEN rr_top_n.num
    ELSE Len(rr_docs)

RerankNormalized(r) ==
    Sigmoid(IF r.RelevanceScore.kind = "number" THEN r.RelevanceScore.num ELSE 0)

RerankPasses(r) ==
    rr_score_threshold.kind = "number" => RerankNormalized(r) >= rr_score_threshold.num

ExpectedDocuments ==
    LET kept == SelectSeq(rr_response.results, RerankPasses)
    IN  [i \in 1..Len(kept) |->
            [index |-> kept[i].Index, score |-> RerankNormalized(kept[i]),
             text |-> kept[i].Document]]

\* C22: for a non-empty document list one remote call is made, asking for
\* topk = min(top_n, number of documents), or the number of documents when
\* top_n is absent; the returned documents are the remote results in remote
\* order, all of them without a score_threshold and otherwise those whose
\* normalized score is at least score_threshold; for an empty document list
\* the result is empty and no remote call is made.
C22_RerankFlow ==
    /\ rrPc \in {"returned", "raised"} =>
          IF Len(rr_docs) = 0
          THEN rr_requests = <<>> /\ rr_result = <<>> /\ rrPc = "returned"
          ELSE rr_requests = <<ExpectedTopK>>
    /\ (rrPc = "returned" /\ Len(rr_docs) > 0) => rr_result = ExpectedDocuments

C22_Witness ==
    /\ rrPc = "returned"
    /\ Len(rr_docs) = 3
    /\ rr_top_n = Num(5)
    /\ rr_requests = <<3>>
    /\ rr_score_threshold = Num(600)
    /\ Len(rr_response.results) = 2
    /\ rr_response.results[1].RelevanceScore = Num(-2)
    /\ rr_response.results[2].RelevanceScore = Num(1)
    /\ Len(rr_result) = 1
    /\ rr_result[1].index = rr_response.results[2].Index

(***************************************************************************)
(* Chat-with-knowledge-base tool stream:                                   *)
(* tools/chat_with_knowledge_base_stream, ChatWithKnowledgeBaseStream.     *)
(***************************************************************************)
MaxToolChunks == 4

ToolThinkOpen == "\n<think>\n"
ToolThinkCloseBeforeContent == "\n</think>\n\n"
ToolThinkCloseAtEnd == "\n</think>\n"

\* chunks the remote stream may give as its i-th: no choices, or a message
\* whose reasoning_content and content are each None, empty or a text
ToolChunks(i) ==
    {[choices |-> FALSE, reasoning_content |-> None, content |-> None]} \cup
    {[choices |-> TRUE, reasoning_content |-> r, content |-> c] :
        r \in {None, "", ReasoningTexts[i]}, c \in {None, "", ContentTexts[i]}}

\* yield self.create_stream_variable_message("llm_answer", text)
ToolYield(st, text) == [st EXCEPT !.out = Append(@, text)]

\* lines 30-39
ToolHandleReasoning(st, c) ==
    IF Truthy(c.reasoning_content)
    THEN LET opened == IF ~st.thinking_started
                       THEN ToolYield([st EXCEPT !.thinking_started = TRUE],
                                      ToolThinkOpen)
                       ELSE st
         IN ToolYield(opened, c.reasoning_content)
    ELSE st

\* mutant: the block is closed before content without being marked closed
ToolHandleContentNoFlag(st, c) ==
    IF Truthy(c.content) /\ Len(c.content) > 0
    THEN LET closed == IF st.thinking_started /\ ~st.content_started
                       THEN ToolYield(st, ToolThinkCloseBeforeContent)
                       ELSE st
         IN ToolYield(closed, c.content)
    ELSE st

\* lines 41-50
ToolHandleContent(st, c) ==
    IF Truthy(c.content) /\ Len(c.content) > 0
    THEN LET closed == IF st.thinking_started /\ ~st.content_started
                       THEN ToolYield([st EXCEPT !.content_started = TRUE],
                                      ToolThinkCloseBeforeContent)
                       ELSE st
         IN ToolYield(closed, c.content)
    ELSE st

\* lines 22-50: one iteration of the loop over chunks
ToolHandleChunk(st, c) ==
    IF c.choices
    THEN ToolHandleContent(ToolHandleReasoning(st, c), c)
    ELSE st

ToolState ==
    [thinking_started |-> ct_thinking_started,
     content_started |-> ct_content_started, out |-> ct_out]

InitChatTool ==
    /\ GenIdle
    /\ HandlerIdle
    /\ PollIdle
    /\ FileIdle
    /\ EndpointIdle
    /\ RerankIdle
    /\ FacadeIdle
    /\ ctPc = "stream"
    /\ ct_chunks = <<>>
    /\ ct_thinking_started = FALSE
    /\ ct_content_started = FALSE
    /\ ct_out = <<>>

\* the loop pulls the next chunk and runs its body on it
ToolChunkArrives(c) ==
    /\ ctPc = "stream"
    /\ Len(ct_chunks) < MaxToolChunks
    /\ ct_chunks' = Append(ct_chunks, c)
    /\ LET st == ToolHandleChunk(ToolState, c)
       IN /\ ct_thinking_started' = st.thinking_started
          /\ ct_content_started' = st.content_started
          /\ ct_out' = st.out
    /\ UNCHANGED ctPc
    /\ UNCHANGED <<genVars, hVars, pollVars, fileVars, epVars, rerankVars, facadeVars>>

\* lines 52-55: the stream is exhausted
ToolStreamEnds ==
    /\ ctPc = "stream"
    /\ ct_out' = IF ct_thinking_started /\ ~ct_content_started
                 THEN Append(ct_out, ToolThinkCloseAtEnd)
                 ELSE ct_out
    /\ ctPc' = "done"
    /\ UNCHANGED <<ct_chunks, ct_thinking_started, ct_content_started>>
    /\ UNCHANGED <<genVars, hVars, pollVars, fileVars, epVars, rerankVars, facadeVars>>

NextChatTool ==
    \/ \E c \in ToolChunks(Len(ct_chunks) + 1) : ToolChunkArrives(c)
    \/ ToolStreamEnds

SpecChatTool == InitChatTool /\ [][NextChatTool]_vars

(***************************************************************************)
(* Properties of the chat-with-knowledge-base tool stream                  *)
(***************************************************************************)
ToolCount(texts, text) == Cardinality({i \in 1..Len(texts) : texts[i] = text})
ToolOpenings == ToolCount(ct_out, ToolThinkOpen)
ToolClosings ==
    ToolCount(ct_out, ToolThinkCloseBeforeContent) + ToolCount(ct_out, ToolThinkCloseAtEnd)

HasReasoning(c) == c.choices /\ Truthy(c.reasoning_content)
HasContent(c) == c.choices /\ Truthy(c.content)

\* some content text arrives with or after the first reasoning text
ContentFollowsReasoning(cs) ==
    \E i, j \in 1..Len(cs) : i <= j /\ HasReasoning(cs[i]) /\ HasContent(cs[j])

\* C28: the opening and the closing thinking marker are each emitted at most
\* once; once the chunk sequence is consumed the closing marker has been
\* emitted if and only if the opening marker has; when no content follows
\* the reasoning, no closing marker is emitted while chunks are still being
\* consumed, and it is the last message once they are.
C28_ToolMarkers ==
    /\ ToolOpenings <= 1
    /\ ToolClosings <= ToolOpenings
    /\ ToolOpenings = (IF \E i \in 1..Len(ct_chunks) : HasReasoning(ct_chunks[i])
                       THEN 1 ELSE 0)
    /\ ctPc = "done" => ToolClosings = ToolOpenings
    /\ (ToolOpenings = 1 /\ ~ContentFollowsReasoning(ct_chunks)) =>
          IF ctPc = "stream"
          THEN ToolClosings = 0
          ELSE ct_out[Len(ct_out)] = ToolThinkCloseAtEnd

C28_Witness ==
    /\ ctPc = "done"
    /\ Len(ct_chunks) = 3
    /\ HasContent(ct_chunks[1]) /\ ~HasReasoning(ct_chunks[1])
    /\ HasReasoning(ct_chunks[2])
    /\ HasReasoning(ct_chunks[3])
    /\ ~ContentFollowsReasoning(ct_chunks)
    /\ ct_out = <<ct_chunks[1].content, ToolThinkOpen, ct_chunks[2].reasoning_content,
                  ct_chunks[3].reasoning_content, ToolThinkCloseAtEnd>>

(***************************************************************************)
(* API facade, structured-string parameters: tools/base/api_helper.py.     *)
(* A call is one facade operation with its structured parameter; the       *)
(* other arguments are well formed.                                        *)
(***************************************************************************)
MaxParts == 3

FacadeOps ==
    {"upload_document_async", "upload_document_async_advance",
     "query_content_text", "query_content_image", "query_content_image_advance",
     "upsert_chunks", "text_embedding", "rerank"}

\* the structured-string parameter of each operation
StructuredParam(op) ==
    CASE op \in {"upload_document_async", "upload_document_async_advance"} -> "separators"
      [] op \in {"query_content_text", "query_content_image",
                 "query_content_image_advance"} -> "recall_window"
      [] op = "upsert_chunks" -> "text_chunks"
      [] op = "text_embedding" -> "input"
      [] op = "rerank" -> "documents"

\* lines 295, 523: the operations that take a local file_path
ChecksLocalFile(op) ==
    op \in {"upload_document_async_advance", "query_content_image_advance"}

\* the pieces recall_window.split(",") may give
PartTexts == {"", " ", "5", " 7", "x", "1.5"}

\* None
AbsentParam == [kind |-> "absent", parts |-> <<>>, json |-> "none", elements |-> "none"]

\* a recall_window string, as the pieces between its commas; <<"">> is ""
CsvParams ==
    {[kind |-> "csv", parts |-> p, json |-> "none", elements |-> "none"] :
        p \in UNION {[1..n -> PartTexts] : n \in 1..MaxParts}}

\* a separators, text_chunks, input or documents string, by what json.loads
\* makes of it: "empty" is the string "", "invalid" is not JSON, the others
\* are the type of the decoded value; an array is empty, holds objects only,
\* or holds some element that is not an object
JsonParams ==
    {[kind |-> "text", parts |-> <<>>, json |-> j, elements |-> "none"] :
        j \in {"empty", "invalid", "object", "number", "null", "string"}}
    \cup {[kind |-> "text", parts |-> <<>>, json |-> "array", elements |-> e] :
            e \in {"empty", "objects", "mixed"}}

ParamsOf(op) ==
    {AbsentParam} \cup
    (IF StructuredParam(op) = "recall_window" THEN CsvParams ELSE JsonParams)

\* python truthiness of the parameter
ParamGiven(param) ==
    /\ param.kind # "absent"
    /\ ~(param.kind = "csv" /\ param.parts = <<"">>)
    /\ ~(param.kind = "text" /\ param.json = "empty")

\* p.strip()
Strip(p) == CASE p = " " -> "" [] p = " 7" -> "7" [] OTHER -> p

\* int(p) of a stripped piece: IntOf where it is an integer literal,
\* ValueError otherwise
IsIntLiteral(p) == p \in {"5", "7"}
IntOf(p) == CASE p = "5" -> 5 [] p = "7" -> 7

NonBlank(p) == Strip(p) # ""
StrippedParts(param) ==
    LET kept == SelectSeq(param.parts, NonBlank)
    IN  [i \in 1..Len(kept) |-> Strip(kept[i])]

ParseError(e) == [error |-> e, value |-> NoParam]
Parsed(v) == [error |-> None, value |-> v]
IntList(a, b) == [kind |-> "ints", parts |-> <<a, b>>, json |-> "none", elements |-> "none"]

\* mutant: more than two values are accepted, the first two taken
ParseRecallWindowAtLeastTwo(param) ==
    IF ~ParamGiven(param) THEN Parsed(NoParam)
    ELSE LET parts == StrippedParts(param)
         IN  IF Len(parts) < 2 THEN ParseError("ValueError")
             ELSE IF IsIntLiteral(parts[1]) /\ IsIntLiteral(parts[2])
                  THEN Parsed(IntList(IntOf(parts[1]), IntOf(parts[2])))
                  ELSE ParseError("ValueError")

\* lines 396-409, 466-479, 526-539
ParseRecallWindow(param) ==
    IF ~ParamGiven(param) THEN Parsed(NoParam)
    ELSE LET parts == StrippedParts(param)
         IN  IF Len(parts) # 2 THEN ParseError("ValueError")
             ELSE IF IsIntLiteral(parts[1]) /\ IsIntLiteral(parts[2])
                  THEN Parsed(IntList(IntOf(parts[1]), IntOf(parts[2])))
                  ELSE ParseError("ValueError")

\* lines 235-245, 298-308, 580-590, 630-640, 664-674
ParseJsonList(param) ==
    IF ~ParamGiven(param) THEN Parsed(NoParam)
    ELSE IF param.json = "invalid" THEN ParseError("ValueError")
    ELSE IF param.json # "array" THEN ParseError("ValueError")
    ELSE Parsed([kind |-> "list", parts |-> <<>>, json |-> "array",
                 elements |-> param.elements])

\* lines 592-597: every chunk must be a JSON object
CheckChunks(p) ==
    IF p.error = None /\ p.value.kind = "list" /\ p.value.elements = "mixed"
    THEN ParseError("ValueError")
    ELSE p

ParseParam(op, param) ==
    IF StructuredParam(op) = "recall_window" THEN ParseRecallWindow(param)
    ELSE IF op = "upsert_chunks" THEN CheckChunks(ParseJsonList(param))
    ELSE ParseJsonList(param)

InitFacade ==
    /\ GenIdle
    /\ HandlerIdle
    /\ PollIdle
    /\ FileIdle
    /\ EndpointIdle
    /\ RerankIdle
    /\ ChatToolIdle
    /\ faPc = "start"
    /\ fa_op \in FacadeOps
    /\ fa_param \in ParamsOf(fa_op)
    /\ fa_file_exists \in (IF ChecksLocalFile(fa_op) THEN BOOLEAN ELSE {TRUE})
    /\ fa_requests = 0
    /\ fa_raised = None
    /\ fa_parsed = NoParam

\* one facade operation from its first line to its return or exception
FacadeCall(remote_ok) ==
    /\ faPc = "start"
    /\ IF ChecksLocalFile(fa_op) /\ ~fa_file_exists
       THEN /\ fa_raised' = "FileNotFoundError"
            /\ faPc' = "raised"
            /\ UNCHANGED <<fa_requests, fa_parsed>>
       ELSE LET p == ParseParam(fa_op, fa_param)
            IN  IF p.error # None
                THEN /\ fa_raised' = p.error
                     /\ faPc' = "raised"
                     /\ UNCHANGED <<fa_requests, fa_parsed>>
                ELSE /\ fa_parsed' = p.value
                     /\ fa_requests' = fa_requests + 1
                     /\ IF remote_ok
                        THEN faPc' = "returned" /\ UNCHANGED fa_raised
                        ELSE faPc' = "raised" /\ fa_raised' = "RemoteError"
    /\ UNCHANGED <<fa_op, fa_param, fa_file_exists>>
    /\ UNCHANGED <<genVars, hVars, pollVars, fileVars, epVars, rerankVars, chatVars>>

NextFacade == \E remote_ok \in BOOLEAN : FacadeCall(remote_ok)

SpecFacade == InitFacade /\ [][NextFacade]_vars

(***************************************************************************)
(* Properties of the facade's structured parameters                        *)
(***************************************************************************)
FacadeDone == faPc \in {"returned", "raised"}

\* the values between the commas that are not blank
GivenValues(param) == SelectSeq(param.parts, LAMBDA p : p \notin {"", " "})
LooksInteger(p) == p \in {"5", " 7"}

\* a non-empty recall_window that is not two integers
MalformedRecallWindow(param) ==
    /\ param.kind = "csv"
    /\ param.parts # <<"">>
    /\ \/ Len(GivenValues(param)) # 2
       \/ \E i \in 1..Len(GivenValues(param)) : ~LooksInteger(GivenValues(param)[i])

\* a non-empty string that is not JSON or whose JSON value is not an array
MalformedJsonList(param) ==
    /\ param.kind = "text"
    /\ param.json \in {"invalid", "object", "number", "null", "string"}

Malformed(param) == MalformedRecallWindow(param) \/ MalformedJsonList(param)

LocalFileMissing == ChecksLocalFile(fa_op) /\ ~fa_file_exists

\* C23, as stated: in every facade operation a malformed structured-string
\* parameter ends the call with the invalid-argument error, no remote
\* request having been made.
C23_MalformedRaisesInvalidArgument ==
    (FacadeDone /\ Malformed(fa_param)) =>
        /\ fa_raised = "ValueError"
        /\ fa_requests = 0

\* C23, amended: a malformed structured-string parameter ends the call with
\* an exception, no remote request having been made, and no call makes more
\* than one request; the exception is the invalid-argument error, except in
\* the operations that take a local file path when that file is missing,
\* which raise the file-not-found error before they look at the parameter.
C23_MalformedRaisesBeforeRequest ==
    /\ fa_requests <= 1
    /\ (FacadeDone /\ Malformed(fa_param)) =>
          /\ faPc = "raised"
          /\ fa_requests = 0
          /\ fa_raised = (IF LocalFileMissing THEN "FileNotFoundError" ELSE "ValueError")

C23_Witness ==
    /\ faPc = "raised"
    /\ fa_op = "query_content_image_advance"
    /\ fa_file_exists
    /\ fa_param.parts = <<"5", " 7", "5">>
    /\ fa_raised = "ValueError"
    /\ fa_requests = 0

(***************************************************************************)
(* All components                                                          *)
(***************************************************************************)
Init == InitGenerate \/ InitStream \/ InitResponse \/ InitPoll \/ InitResolve
        \/ InitEndpoint \/ InitRerank \/ InitChatTool \/ InitFacade

Next == NextGenerate \/ NextStream \/ NextResponse \/ NextPoll \/ NextResolve
        \/ NextEndpoint \/ NextRerank \/ NextChatTool \/ NextFacade

Spec == Init /\ [][Next]_vars

====
